---- MODULE Spec2Model ----
(***************************************************************************)
(* chsqlar: a content-addressed, deduplicating file archiver on SQLite.     *)
(* The model follows src/src/main.rs: the two tables (files, chunks), the   *)
(* archive functions that work on an open transaction, and the three        *)
(* commands add / list / extract, each scoped to one rusqlite transaction   *)
(* that is dropped when the command returns.                                *)
(***************************************************************************)
EXTENDS Integers, Sequences, FiniteSets, TLC

(***************************************************************************)
(* Bytes and 32-bit wrapping arithmetic (std::num::Wrapping<u32>).  A u32   *)
(* is kept as <<high 16 bits, low 16 bits>> so that no intermediate product *)
(* leaves the range of the checker's integers.                              *)
(***************************************************************************)
Half == 65536

Mul16(x, y) ==
    (((x % 256) * y) + ((((x \div 256) * y) % 256) * 256)) % Half

\* x * y for 16-bit x, y, as <<high 16 bits, low 16 bits>>
Mul16Wide(x, y) ==
    LET a == x \div 256
        b == x % 256
        t == a * y
        u == b * y
        s == ((t % 256) * 256) + (u % Half)
    IN  << ((t \div 256) + (u \div Half) + (s \div Half)) % Half, s % Half >>

\* Wrapping<u32> multiplication
WrappingMul(x, k) ==
    LET p == Mul16Wide(x[2], k[2])
    IN  << (p[1] + Mul16(x[1], k[2]) + Mul16(x[2], k[1])) % Half, p[2] >>

\* Wrapping<u32> addition of a small number n (0 <= n < 65536)
WrappingAdd(x, n) ==
    LET s == x[2] + n
    IN  << (x[1] + (s \div Half)) % Half, s % Half >>

(***************************************************************************)
(* chunk_data: cdchunking's Chunker over ZPAQ::new(20).  cdchunking is a    *)
(* dependency; main.rs holds the call only.  The crate's ZPAQ: the hash     *)
(* h starts at HM; a byte that the order-1 table o1 predicted multiplies h  *)
(* by HM, any other byte by 2*HM; a chunk ends after the byte that brings   *)
(* h below 2^(32-20), and the hash state is reset for the next chunk.       *)
(***************************************************************************)
ZpaqBits == 20

\* HM = 123456791 = 1883 * 65536 + 52503
HM == << 1883, 52503 >>

ZpaqTwo == << 0, 2 >>

\* h < (1 << (32 - nbits)): with nbits = 20 the threshold 4096 lies in the low half
ZpaqBelowThreshold(h) ==
    /\ h[1] = 0
    /\ h[2] < 2 ^ (32 - ZpaqBits)

ZpaqInit == [ c1 |-> 0, o1 |-> [ c \in 0..255 |-> 0 ], h |-> HM ]

ZpaqUpdate(z, byte) ==
    LET m  == WrappingMul(z.h, HM)
        h2 == IF byte = z.o1[z.c1]
              THEN WrappingAdd(m, byte + 1)
              ELSE WrappingAdd(WrappingMul(m, ZpaqTwo), byte + 1)
    IN  [ c1 |-> byte, o1 |-> [ z.o1 EXCEPT ![z.c1] = byte ], h |-> h2 ]

\* Chunker::slices: the chunks of data[pos..], the chunk being built starting at start
RECURSIVE Slices(_, _, _, _)
Slices(data, start, pos, z) ==
    IF pos > Len(data)
    THEN IF start > Len(data) THEN << >> ELSE << SubSeq(data, start, Len(data)) >>
    ELSE LET z2 == ZpaqUpdate(z, data[pos])
         IN  IF ZpaqBelowThreshold(z2.h)
             THEN << SubSeq(data, start, pos) >> \o Slices(data, pos + 1, pos + 1, ZpaqInit)
             ELSE Slices(data, start, pos + 1, z2)

\* a chunker that never cuts: the data as one chunk
chunk_data_whole(data) == << data >>

chunk_data(data) == Slices(data, 1, 1, ZpaqInit)

(***************************************************************************)
(* hash_chunk: the SHA3-512 digest of the chunk as 128 lower-case hex       *)
(* digits.  The digests of the chunks that the modelled files produce are   *)
(* tabulated (FIPS 202 values).                                             *)
(***************************************************************************)
hash_chunk(data) ==
    CASE data = << >> ->
           "a69f73cca23a9ac5c8b567dc185a756e97c982164fe25859e0d1dcc1475c80a615b2123af1f5f94c11e3e9402c3ac558f500199d95b6d3e301758586281dcd26"
      [] data = << 7 >> ->
           "340d7ff9f80cab5032d68e7437a7aad37695f663934c54922f7f09b22be42c32e17e6ab08abf273f9f23121120fa1660e262f8625c97419bacd73310392f8b3f"
      [] data = << 221, 107, 1 >> ->
           "0df01e717bcf64a6cd90d87896cddec774f80223738849ec3f337474a86f9df319836faf3393b5442d3030b47b8fb2a81ba7924eab790e73bff0364450c5b6a4"
      [] data = << 221, 107, 1, 7 >> ->
           "a91efa4119d2a9e38007bea5c975efa39276a5ca26e91ba0fdcb9564d936a84d794181b51ce652d7bd546f3ea8686f172ca37b53e3bc98c6164f808a981654d4"
      [] data = << 7, 7 >> ->
           "f6faa17fe1f09812ae0f5f3f7b6482ce307a96e437a78ec8f07a340ba9feb44588231148654d7866133555678a808f833e9d82cb31bde5c58b46d9e9ad11ac10"

(***************************************************************************)
(* zstd: encode_all(data, 0) wraps the bytes in a frame, decode_all takes   *)
(* them out again; a value that is no frame does not decode.                *)
(***************************************************************************)
encode_all(data) == [ zstd |-> data ]

IsFrame(blob) == DOMAIN blob = { "zstd" }

decode_all(blob) == blob.zstd

(***************************************************************************)
(* Results.  Every failure of the program is a failure::Error; the ones     *)
(* that occur here are rusqlite's QueryReturnedNoRows (query_row found no   *)
(* row) and std::io errors.                                                 *)
(***************************************************************************)
Ok(v) == [ ok |-> TRUE, value |-> v ]

Err(e) == [ ok |-> FALSE, err |-> e ]

(***************************************************************************)
(* The chunks column of a file row is TEXT.  A text is kept as its sequence *)
(* of lexical tokens: the delimiter ";" is one token and a maximal run of   *)
(* other characters (a hex digest) is one token; the empty string has no    *)
(* token.                                                                   *)
(***************************************************************************)
Delimiter == ";"

Tokens(s) == IF s = "" THEN << >> ELSE << s >>

\* Vec<String>::join(";")
RECURSIVE Join(_)
Join(v) ==
    IF v = << >> THEN << >>
    ELSE IF Len(v) = 1 THEN Tokens(v[1])
    ELSE Tokens(v[1]) \o << Delimiter >> \o Join(Tail(v))

\* str::split(";"): the pieces between the delimiters, empty pieces included
RECURSIVE SplitFrom(_, _, _)
SplitFrom(text, i, piece) ==
    IF i > Len(text) THEN << piece >>
    ELSE IF text[i] = Delimiter
         THEN << piece >> \o SplitFrom(text, i + 1, "")
         ELSE SplitFrom(text, i + 1, piece \o text[i])

Split(text) == SplitFrom(text, 1, "")

(***************************************************************************)
(* The two tables.  A database (and the view of an open transaction) is     *)
(*   files  : name -> [size, chunks]     (name TEXT PRIMARY KEY)           *)
(*   chunks : hash -> compressed data     (hash BLOB PRIMARY KEY)           *)
(***************************************************************************)
EmptyTable == [ k \in {} |-> 0 ]

\* the schema that SqliteDatabase::new creates in a new database file
EmptyDatabase == [ files |-> EmptyTable, chunks |-> EmptyTable ]

Upsert(table, key, row) ==
    [ k \in (DOMAIN table) \cup { key } |-> IF k = key THEN row ELSE table[k] ]

\* INSERT OR IGNORE INTO chunks VALUES (?,?)
InsertOrIgnore(table, key, row) ==
    IF key \in DOMAIN table THEN table ELSE Upsert(table, key, row)

\* INSERT OR REPLACE INTO files VALUES (?,?,?)
InsertOrReplace(table, key, row) == Upsert(table, key, row)

File(name, size, chunks) == [ name |-> name, size |-> size, chunks |-> chunks ]

get_chunk(trans, hash) ==
    IF hash \notin DOMAIN trans.chunks THEN Err("QueryReturnedNoRows")
    ELSE IF ~IsFrame(trans.chunks[hash]) THEN Err("Io")
    ELSE Ok(decode_all(trans.chunks[hash]))

\* put_chunk with INSERT OR REPLACE and the bytes as they came, not compressed
put_chunk_replacing(trans, hash, data) ==
    [ trans EXCEPT !.chunks = InsertOrReplace(@, hash, [ raw |-> data ]) ]

put_chunk(trans, hash, data) ==
    [ trans EXCEPT !.chunks = InsertOrIgnore(@, hash, encode_all(data)) ]

\* put_hash_chunk with the address made of the hash and the number of the row
put_hash_chunk_numbered(trans, data) ==
    LET address == hash_chunk(data) \o "#" \o ToString(Cardinality(DOMAIN trans.chunks))
    IN  [ trans |-> put_chunk(trans, address, data), hash |-> address ]

\* returns the transaction after the insert and the hash
put_hash_chunk(trans, data) ==
    [ trans |-> put_chunk(trans, hash_chunk(data), data), hash |-> hash_chunk(data) ]

put_file(trans, file) ==
    [ trans EXCEPT !.files =
        InsertOrReplace(@, file.name, [ size |-> file.size, chunks |-> Join(file.chunks) ]) ]

get_file(trans, name) ==
    IF name \notin DOMAIN trans.files THEN Err("QueryReturnedNoRows")
    ELSE Ok(File(name, trans.files[name].size, Split(trans.files[name].chunks)))

\* the loop of get_file_data over the chunk list, result being the bytes so far
RECURSIVE GetChunks(_, _, _)
GetChunks(trans, hashes, result) ==
    IF hashes = << >> THEN Ok(result)
    ELSE LET chunk == get_chunk(trans, Head(hashes))
         IN  IF ~chunk.ok THEN chunk
             ELSE GetChunks(trans, Tail(hashes), result \o chunk.value)

get_file_data(trans, name) ==
    LET f == get_file(trans, name)
    IN  IF ~f.ok THEN f ELSE GetChunks(trans, f.value.chunks, << >>)

\* the loop of put_file_data over the chunks of the data
RECURSIVE PutChunks(_, _, _)
PutChunks(trans, pieces, hashes) ==
    IF pieces = << >> THEN [ trans |-> trans, chunks |-> hashes ]
    ELSE LET p == put_hash_chunk(trans, Head(pieces))
         IN  PutChunks(p.trans, Tail(pieces), Append(hashes, p.hash))

\* put_file_data that extends the chunk list of the record it finds
put_file_data_appending(trans, name, data) ==
    LET f == get_file(trans, name)
    IN  IF ~f.ok THEN [ ok |-> FALSE, err |-> f.err, trans |-> trans ]
        ELSE LET p == PutChunks(trans, chunk_data(data), << >>)
             IN  [ ok |-> TRUE,
                   trans |-> put_file(p.trans, [ f.value EXCEPT !.chunks = @ \o p.chunks ]) ]

\* the result and the transaction afterwards
put_file_data(trans, name, data) ==
    LET f == get_file(trans, name)
    IN  IF ~f.ok THEN [ ok |-> FALSE, err |-> f.err, trans |-> trans ]
        ELSE LET p == PutChunks(trans, chunk_data(data), << >>)
             IN  [ ok |-> TRUE,
                   trans |-> put_file(p.trans, [ f.value EXCEPT !.chunks = p.chunks ]) ]

list_files(trans) == DOMAIN trans.files

(***************************************************************************)
(* Paths (std::path).  A path is the sequence of its components; the root   *)
(* directory is the component "/", so an absolute path starts with "/".     *)
(***************************************************************************)
RootDir == "/"

None == [ some |-> FALSE ]

Some(v) == [ some |-> TRUE, value |-> v ]

\* Path::parent: None for the empty path and for the root
parent(p) ==
    IF p = << >> \/ p = << RootDir >> THEN None ELSE Some(SubSeq(p, 1, Len(p) - 1))

\* the path as the string of its bytes
RECURSIVE PathString(_)
PathString(p) ==
    IF p = << >> THEN ""
    ELSE IF Len(p) = 1 THEN p[1]
    ELSE IF p[1] = RootDir THEN RootDir \o PathString(Tail(p))
    ELSE p[1] \o "/" \o PathString(Tail(p))

\* starts_with of str: the bytes of base are a prefix of the bytes of p
starts_with_str(p, base) ==
    /\ Len(PathString(base)) <= Len(PathString(p))
    /\ SubSeq(PathString(p), 1, Len(PathString(base))) = PathString(base)

\* Path::starts_with: base is a prefix of p, component by component
starts_with(p, base) ==
    /\ Len(base) <= Len(p)
    /\ SubSeq(p, 1, Len(base)) = base

\* Path::strip_prefix
strip_prefix(p, base) ==
    IF starts_with(p, base) THEN Ok(SubSeq(p, Len(base) + 1, Len(p))) ELSE Err("StripPrefixError")

\* Path::ancestors: the path, its parent, the parent of that, ...
RECURSIVE ancestors(_)
ancestors(p) ==
    IF parent(p).some THEN << p >> \o ancestors(parent(p).value) ELSE << p >>

\* PathBuf::push: an absolute path replaces the buffer
push(buf, p) == IF p # << >> /\ p[1] = RootDir THEN p ELSE buf \o p

\* the first ancestor of cwd that is a prefix of p, stripped from p;
\* "panic" when there is none (the unwrap of next())
RECURSIVE FirstStripped(_, _)
FirstStripped(xs, p) ==
    IF xs = << >> THEN [ panic |-> TRUE ]
    ELSE IF strip_prefix(p, Head(xs)).ok
         THEN [ panic |-> FALSE, path |-> strip_prefix(p, Head(xs)).value ]
         ELSE FirstStripped(Tail(xs), p)

normalise_path(cwd, p) == FirstStripped(ancestors(cwd), p)

(***************************************************************************)
(* The file system that add reads.  current_dir() is /w.                    *)
(*   /w/a/b.txt, /w/a/c.txt  two files with the same four bytes (two chunks)*)
(*   /w/d.txt                one byte                                       *)
(*   /w/empty.txt            no bytes                                       *)
(*   /w/secret               a file that cannot be opened for reading       *)
(*   /w/pipe                 a fifo                                         *)
(*   /w/link                 a symbolic link to /w/d.txt                    *)
(*   /a/b.txt                a file outside the working directory           *)
(*   /proc/version           a file whose metadata reports length 0         *)
(***************************************************************************)
current_dir == << "/", "w" >>

TwoChunks == << 221, 107, 1, 7 >>

OneChunk == << 7 >>

RegularFile(data) == [ kind |-> "file", data |-> data, len |-> Len(data), readable |-> TRUE ]

Directory == [ kind |-> "dir" ]

Fs ==
    ( << "/" >> :> Directory ) @@
    ( << "/", "w" >> :> Directory ) @@
    ( << "/", "w", "a" >> :> Directory ) @@
    ( << "/", "w", "a", "b.txt" >> :> RegularFile(TwoChunks) ) @@
    ( << "/", "w", "a", "c.txt" >> :> RegularFile(TwoChunks) ) @@
    ( << "/", "w", "d.txt" >> :> RegularFile(OneChunk) ) @@
    ( << "/", "w", "empty.txt" >> :> RegularFile(<< >>) ) @@
    ( << "/", "w", "secret" >> :> [ RegularFile(OneChunk) EXCEPT !.readable = FALSE ] ) @@
    ( << "/", "w", "pipe" >> :> [ kind |-> "fifo" ] ) @@
    ( << "/", "w", "link" >> :> [ kind |-> "symlink", target |-> << "/", "w", "d.txt" >> ] ) @@
    ( << "/", "a" >> :> Directory ) @@
    ( << "/", "a", "b.txt" >> :> RegularFile(OneChunk) ) @@
    ( << "/", "proc" >> :> Directory ) @@
    ( << "/", "proc", "version" >> :> [ RegularFile(OneChunk) EXCEPT !.len = 0 ] )

\* fs::canonicalize: absolute, symbolic links resolved; fails for a missing path
\* and for the empty path (realpath("") is ENOENT)
canonicalize(p) ==
    LET abs == push(current_dir, p)
    IN  IF p = << >> THEN Err("Io")
        ELSE IF abs \notin DOMAIN Fs THEN Err("Io")
        ELSE IF Fs[abs].kind = "symlink" THEN Ok(Fs[abs].target)
        ELSE Ok(abs)

\* fs::read_dir: the paths of the entries of a directory
read_dir(dir) == { q \in DOMAIN Fs : Len(q) = Len(dir) + 1 /\ starts_with(q, dir) }

\* the orders in which read_dir may yield a set of entries
Orders(S) == { o \in [ 1..Cardinality(S) -> S ] : \A i, j \in 1..Cardinality(S) : o[i] = o[j] => i = j }

Outcome(kind, files) == [ kind |-> kind, files |-> files ]

\* resolve_files: the possible outcomes, one for each order read_dir may yield.
\* kind is "ok" (files: the regular files found), "err" or "panic" (unimplemented!)
RECURSIVE resolve_files(_)
RECURSIVE ResolveEntries(_, _)
resolve_files(file) ==
    LET c == canonicalize(file)
    IN  IF ~c.ok THEN { Outcome("err", << >>) }
        ELSE IF Fs[c.value].kind = "file" THEN { Outcome("ok", << c.value >>) }
        ELSE IF Fs[c.value].kind = "dir"
             THEN UNION { ResolveEntries(c.value, o) : o \in Orders(read_dir(c.value)) }
        ELSE { Outcome("panic", << >>) }

\* the loop of resolve_files over the entries of the directory
ResolveEntries(dir, entries) ==
    IF entries = << >> THEN { Outcome("ok", << >>) }
    ELSE UNION { IF r.kind # "ok" THEN { r }
                 ELSE { IF rest.kind = "ok" THEN Outcome("ok", r.files \o rest.files) ELSE rest
                        : rest \in ResolveEntries(dir, Tail(entries)) }
                 : r \in resolve_files(push(dir, Head(entries))) }

(***************************************************************************)
(* The directory that extract writes into: relative path -> node.           *)
(***************************************************************************)
\* fs::create_dir_all: fails when a component of the path exists as a file
create_dir_all(disk, dir) ==
    IF \E n \in 1..Len(dir) : SubSeq(dir, 1, n) \in DOMAIN disk /\ disk[SubSeq(dir, 1, n)].kind = "file"
    THEN [ ok |-> FALSE, disk |-> disk ]
    ELSE [ ok |-> TRUE,
           disk |-> [ q \in (DOMAIN disk) \cup { SubSeq(dir, 1, n) : n \in 1..Len(dir) } |->
                        IF q \in DOMAIN disk THEN disk[q] ELSE Directory ] ]

\* write_file_data_safe with the file opened by create(true).truncate(true)
write_file_data_truncating(disk, fname, data) ==
    IF ~parent(fname).some THEN [ kind |-> "panic", disk |-> disk ]
    ELSE LET made == create_dir_all(disk, parent(fname).value)
         IN  IF ~made.ok THEN [ kind |-> "err", disk |-> disk ]
             ELSE IF fname \in DOMAIN made.disk /\ made.disk[fname].kind = "dir"
             THEN [ kind |-> "err", disk |-> made.disk ]
             ELSE [ kind |-> "ok",
                    disk |-> Upsert(made.disk, fname, [ kind |-> "file", data |-> data ]) ]

\* the outcome ("ok", "err" or "panic") and the directory afterwards
write_file_data_safe(disk, fname, data) ==
    IF ~parent(fname).some THEN [ kind |-> "panic", disk |-> disk ]
    ELSE LET made == create_dir_all(disk, parent(fname).value)
         IN  IF ~made.ok THEN [ kind |-> "err", disk |-> disk ]
             ELSE IF fname \in DOMAIN made.disk THEN [ kind |-> "err", disk |-> made.disk ]
             ELSE [ kind |-> "ok",
                    disk |-> Upsert(made.disk, fname, [ kind |-> "file", data |-> data ]) ]

\* the outcome and the directory afterwards
extract_file(trans, disk, file, ex_to) ==
    LET db_data == get_file_data(trans, file)
    IN  IF ~db_data.ok THEN [ kind |-> "err", disk |-> disk ]
        ELSE IF ~parent(ex_to).some THEN [ kind |-> "panic", disk |-> disk ]
        ELSE IF ~strip_prefix(file, parent(ex_to).value).ok THEN [ kind |-> "panic", disk |-> disk ]
        ELSE write_file_data_safe(disk, strip_prefix(file, parent(ex_to).value).value, db_data.value)

(***************************************************************************)
(* Transactions.  Each command opens one with connection.transaction() and  *)
(* returns without calling commit(); the Transaction is dropped with its    *)
(* default DropBehavior::Rollback, on the Ok path, on the error path and    *)
(* when a panic unwinds.                                                    *)
(***************************************************************************)
\* the drop with DropBehavior::Commit
DropTransactionCommit(committed, trans) == trans

\* the committed database after the transaction with view trans is dropped
DropTransaction(committed, trans) == committed

(***************************************************************************)
(* Inputs.                                                                  *)
(***************************************************************************)
\* the longest list of paths on a command line
MaxArgs == 2

AddArgs ==
    { << "a" >>, << "a", "b.txt" >>, << "d.txt" >>, << "empty.txt" >>, << "secret" >>,
      << "pipe" >>, << "link" >>, << "missing" >>, << "/", "a", "b.txt" >>,
      << "/", "proc", "version" >> }

ExtractArgs == { << >>, << "a" >>, << "a", "b.txt" >>, << "ab" >>, << "d.txt" >> }

ArgLists(S) == UNION { [ 1..n -> S ] : n \in 0..MaxArgs }

\* a database file written earlier with the same schema: a/b.txt and empty.txt
\* each holding the byte 7, and ab/c holding the bytes 7 7
ArchiveDatabase ==
    [ files  |-> ( << "a", "b.txt" >> :> [ size |-> 1, chunks |-> << hash_chunk(<< 7 >>) >> ] ) @@
                 ( << "ab", "c" >> :> [ size |-> 2, chunks |-> << hash_chunk(<< 7, 7 >>) >> ] ) @@
                 ( << "empty.txt" >> :> [ size |-> 1, chunks |-> << hash_chunk(<< 7 >>) >> ] ),
      chunks |-> ( hash_chunk(<< 7 >>) :> encode_all(<< 7 >>) ) @@
                 ( hash_chunk(<< 7, 7 >>) :> encode_all(<< 7, 7 >>) ) ]

\* the database file that SqliteDatabase::new opens (CREATE TABLE IF NOT EXISTS)
InitialDatabases == { EmptyDatabase, ArchiveDatabase }

\* the directory extract runs in: empty, or already holding a/b.txt
InitialDisks ==
    { EmptyTable,
      ( << "a" >> :> Directory ) @@ ( << "a", "b.txt" >> :> [ kind |-> "file", data |-> << 7, 7 >> ] ) }

\* existed and records note the file index as add_file found it: whether it held
\* a record for fname, and how many records it held
NoFile == [ fname |-> << >>, buf |-> << >>, existed |-> FALSE, records |-> 0 ]

(***************************************************************************)
(* State.                                                                   *)
(*   db        the committed database                                       *)
(*   trans     the view of the open transaction (db when none is open)      *)
(*   disk      the directory extract writes into                            *)
(*   pc        "idle", or the place the running command is at               *)
(*   cmd       the command running or last run                              *)
(*   args      the command-line paths not yet processed                     *)
(*   resolved  add: the resolved files of the current argument not yet added*)
(*   cur       add: the file between put_file and put_file_data             *)
(*   selected  extract: the selected names not yet extracted                *)
(*   ex_to     extract: the requested path being extracted                  *)
(*   exit      how the last command ended: "ok", "err" or "panic"           *)
(*   stdout    the names printed by list                                    *)
(*   archived  the files the running or last add has put, in order          *)
(*   buffer    the argument of a call of chunk_data on its own               *)
(*   sliced    what that call returned                                       *)
(*   asked     the name given to a call of get_file_data on its own          *)
(*   answer    what that call returned                                       *)
(***************************************************************************)
VARIABLES db, trans, disk, pc, cmd, args, resolved, cur, selected, ex_to, exit, stdout, archived,
          buffer, sliced, asked, answer

vars == << db, trans, disk, pc, cmd, args, resolved, cur, selected, ex_to, exit, stdout, archived,
          buffer, sliced, asked, answer >>

Init ==
    /\ db \in InitialDatabases
    /\ trans = db
    /\ disk \in InitialDisks
    /\ pc = "idle"
    /\ cmd = "none"
    /\ args = << >>
    /\ resolved = << >>
    /\ cur = NoFile
    /\ selected = << >>
    /\ ex_to = << >>
    /\ exit = "none"
    /\ stdout = << >>
    /\ archived = << >>
    /\ buffer = << >>
    /\ sliced = << >>
    /\ asked = << >>
    /\ answer = None

\* a command starts: connection.transaction()
Begin(command, files) ==
    /\ cmd' = command
    /\ pc' = command
    /\ args' = files
    /\ trans' = db
    /\ exit' = "running"
    /\ stdout' = << >>
    /\ archived' = << >>
    /\ UNCHANGED << db, disk, resolved, cur, selected, ex_to, buffer, sliced, asked, answer >>

\* a command returns (Ok, Err, or a panic unwinding): the transaction, whose view
\* is view, is dropped
Return(how, view) ==
    /\ pc' = "idle"
    /\ exit' = how
    /\ db' = DropTransaction(db, view)
    /\ trans' = db'
    /\ args' = << >>
    /\ resolved' = << >>
    /\ cur' = NoFile
    /\ selected' = << >>
    /\ ex_to' = << >>

(***************************************************************************)
(* add                                                                      *)
(***************************************************************************)
add_files_cmd(files) ==
    /\ pc = "idle"
    /\ Begin("add", files)

\* the next argument: resolve_files(file)?
AddResolve ==
    /\ pc = "add" /\ resolved = << >> /\ args # << >>
    /\ \E r \in resolve_files(Head(args)) :
         IF r.kind = "ok"
         THEN /\ resolved' = r.files
              /\ args' = Tail(args)
              /\ UNCHANGED << db, trans, pc, cur, selected, ex_to, exit >>
         ELSE Return(r.kind, trans)
    /\ UNCHANGED << disk, cmd, stdout, archived, buffer, sliced, asked, answer >>

\* normalise_path and the first half of add_file: read the file, put its record
AddFilePutFile ==
    /\ pc = "add" /\ resolved # << >>
    /\ LET fpath == Head(resolved)
           fname == normalise_path(current_dir, fpath)
       IN  IF fname.panic
           THEN Return("panic", trans)
           ELSE IF ~Fs[fpath].readable
           THEN Return("err", trans)
           ELSE /\ trans' = put_file(trans, File(fname.path, Fs[fpath].len, << >>))
                /\ cur' = [ fname |-> fname.path, buf |-> Fs[fpath].data,
                            existed |-> fname.path \in DOMAIN trans.files,
                            records |-> Cardinality(DOMAIN trans.files) ]
                /\ pc' = "put_file_data"
                /\ UNCHANGED << db, args, resolved, selected, ex_to, exit >>
    /\ UNCHANGED << disk, cmd, stdout, archived, buffer, sliced, asked, answer >>

\* the second half of add_file: put_file_data(trans, fname, buf)?
AddFilePutFileData ==
    /\ pc = "put_file_data"
    /\ LET r == put_file_data(trans, cur.fname, cur.buf)
       IN  IF r.ok
           THEN /\ trans' = r.trans
                /\ pc' = "add"
                /\ resolved' = Tail(resolved)
                /\ cur' = NoFile
                /\ archived' = Append(archived, cur)
                /\ UNCHANGED << db, args, selected, ex_to, exit >>
           ELSE /\ Return("err", r.trans)
                /\ archived' = archived
    /\ UNCHANGED << disk, cmd, stdout, buffer, sliced, asked, answer >>

\* every argument done: Ok(())
AddReturn ==
    /\ pc = "add" /\ resolved = << >> /\ args = << >>
    /\ Return("ok", trans)
    /\ UNCHANGED << disk, cmd, stdout, archived, buffer, sliced, asked, answer >>

(***************************************************************************)
(* list                                                                     *)
(***************************************************************************)
\* the whole command: the names in the order the query yields them
list_cmd ==
    /\ pc = "idle"
    /\ cmd' = "list"
    /\ \E names \in Orders(list_files(db)) : stdout' = names
    /\ exit' = "ok"
    /\ archived' = << >>
    /\ db' = DropTransaction(db, db)
    /\ trans' = db'
    /\ UNCHANGED << disk, pc, args, resolved, cur, selected, ex_to, buffer, sliced, asked, answer >>

(***************************************************************************)
(* extract                                                                  *)
(***************************************************************************)
extract_files_cmd(files) ==
    /\ pc = "idle"
    /\ Begin("extract", files)

\* extract_path up to its loop: the names that start with the requested path
extract_path ==
    /\ pc = "extract" /\ selected = << >> /\ args # << >>
    /\ \E names \in Orders({ x \in list_files(trans) : starts_with(x, Head(args)) }) :
         selected' = names
    /\ ex_to' = Head(args)
    /\ args' = Tail(args)
    /\ UNCHANGED << db, trans, disk, pc, cmd, resolved, cur, exit, stdout, archived, buffer, sliced, asked, answer >>

\* ExtractFile that deletes the record of the file it has written
ExtractFileRemoving ==
    /\ pc = "extract" /\ selected # << >>
    /\ LET r == extract_file(trans, disk, Head(selected), ex_to)
       IN  /\ disk' = r.disk
           /\ IF r.kind = "ok"
              THEN /\ selected' = Tail(selected)
                   /\ trans' = [ trans EXCEPT !.files =
                                   [ n \in (DOMAIN trans.files) \ { Head(selected) } |-> trans.files[n] ] ]
                   /\ UNCHANGED << db, pc, args, resolved, cur, ex_to, exit >>
              ELSE Return(r.kind, trans)
    /\ UNCHANGED << cmd, stdout, archived, buffer, sliced, asked, answer >>

\* one turn of the loop of extract_path: extract_file(trans, f, file)?
ExtractFile ==
    /\ pc = "extract" /\ selected # << >>
    /\ LET r == extract_file(trans, disk, Head(selected), ex_to)
       IN  /\ disk' = r.disk
           /\ IF r.kind = "ok"
              THEN /\ selected' = Tail(selected)
                   /\ UNCHANGED << db, trans, pc, args, resolved, cur, ex_to, exit >>
              ELSE Return(r.kind, trans)
    /\ UNCHANGED << cmd, stdout, archived, buffer, sliced, asked, answer >>

\* every path done: Ok(())
ExtractReturn ==
    /\ pc = "extract" /\ selected = << >> /\ args = << >>
    /\ Return("ok", trans)
    /\ UNCHANGED << disk, cmd, stdout, archived, buffer, sliced, asked, answer >>

Next ==
    \/ \E files \in ArgLists(AddArgs) : add_files_cmd(files)
    \/ AddResolve
    \/ AddFilePutFile
    \/ AddFilePutFileData
    \/ AddReturn
    \/ list_cmd
    \/ \E files \in ArgLists(ExtractArgs) : extract_files_cmd(files)
    \/ extract_path
    \/ ExtractFile
    \/ ExtractReturn

Spec == Init /\ [][Next]_vars

(***************************************************************************)
(* chunk_data on its own: one call on each buffer of up to MaxLen bytes     *)
(* over ChunkBytes.  221 107 1 and 221 107 7 bring the rolling hash below   *)
(* its threshold, so the buffers hold chunk ends at every place from the    *)
(* third byte on.                                                           *)
(***************************************************************************)
\* the longest buffer
MaxLen == 4

ChunkBytes == { 1, 7, 107, 221 }

ChunkBuffers == UNION { [ 1..n -> ChunkBytes ] : n \in 0..MaxLen }

ChunkInit ==
    /\ buffer \in ChunkBuffers
    /\ sliced = << >>
    /\ pc = "chunk_data"
    /\ db = EmptyDatabase
    /\ trans = db
    /\ disk = EmptyTable
    /\ cmd = "none"
    /\ args = << >>
    /\ resolved = << >>
    /\ cur = NoFile
    /\ selected = << >>
    /\ ex_to = << >>
    /\ exit = "none"
    /\ stdout = << >>
    /\ archived = << >>
    /\ asked = << >>
    /\ answer = None

\* the call: chunk_data(buffer)
ChunkData ==
    /\ pc = "chunk_data"
    /\ sliced' = chunk_data(buffer)
    /\ pc' = "chunked"
    /\ UNCHANGED << db, trans, disk, cmd, args, resolved, cur, selected, ex_to, exit, stdout,
                    archived, buffer, asked, answer >>

ChunkNext == ChunkData

ChunkSpec == ChunkInit /\ [][ChunkNext]_vars

(***************************************************************************)
(* get_file_data on its own: one call, for each name, on each database file *)
(* that holds some of three records and some of their three chunks.  A      *)
(* database file whose chunks table lacks a row that a record refers to is  *)
(* one that was damaged or written by another program; SqliteDatabase::new  *)
(* opens it as it is (CREATE TABLE IF NOT EXISTS).                          *)
(***************************************************************************)
ReadChunks == { << 7 >>, << 221, 107, 1 >>, << 7, 7 >> }

ReadRecords ==
    ( << "one.txt" >> :>
        [ size |-> 1, chunks |-> Join(<< hash_chunk(<< 7 >>) >>) ] ) @@
    ( << "two.txt" >> :>
        [ size |-> 4, chunks |-> Join(<< hash_chunk(<< 221, 107, 1 >>), hash_chunk(<< 7 >>) >>) ] ) @@
    ( << "three.txt" >> :>
        [ size |-> 4, chunks |-> Join(<< hash_chunk(<< 7 >>), hash_chunk(<< 7, 7 >>),
                                         hash_chunk(<< 7 >>) >>) ] )

ReadDatabases ==
    { [ files  |-> [ n \in F |-> ReadRecords[n] ],
        chunks |-> [ h \in { hash_chunk(c) : c \in S } |->
                       encode_all(CHOOSE c \in S : hash_chunk(c) = h) ] ]
      : F \in SUBSET DOMAIN ReadRecords, S \in SUBSET ReadChunks }

ReadInit ==
    /\ db \in ReadDatabases
    /\ trans = db
    /\ asked \in (DOMAIN ReadRecords) \cup { << "absent.txt" >> }
    /\ answer = None
    /\ pc = "get_file_data"
    /\ disk = EmptyTable
    /\ cmd = "none"
    /\ args = << >>
    /\ resolved = << >>
    /\ cur = NoFile
    /\ selected = << >>
    /\ ex_to = << >>
    /\ exit = "none"
    /\ stdout = << >>
    /\ archived = << >>
    /\ buffer = << >>
    /\ sliced = << >>

\* the call: get_file_data(trans, asked)
GetFileData ==
    /\ pc = "get_file_data"
    /\ answer' = Some(get_file_data(trans, asked))
    /\ pc' = "read"
    /\ UNCHANGED << db, trans, disk, cmd, args, resolved, cur, selected, ex_to, exit, stdout,
                    archived, buffer, sliced, asked >>

ReadNext == GetFileData

ReadSpec == ReadInit /\ [][ReadNext]_vars

(***************************************************************************)
(* Properties.                                                              *)
(***************************************************************************)
Last(seq) == seq[Len(seq)]

\* names to try an archive function on: every name with a record, and one without
ProbeNames == (DOMAIN trans.files) \cup { << "absent.txt" >> }

\* buffers to try an archive function on: no chunk, one chunk, two chunks
ProbeBuffers == { << >>, OneChunk, TwoChunks }

\* an add transaction is open
InAdd == pc \in { "add", "put_file_data" }

\* add_file has just returned Ok for the file Last(archived)
AfterAddFile == pc = "add" /\ archived # << >>

\* C1 (round trip): in every transaction state that add reaches, for every name N,
\* with or without a record, and every buffer B, the empty one included,
\* put_file_data(N, B) succeeds and get_file_data(N) then returns exactly B.
C1_RoundTrip ==
    InAdd =>
        \A n \in ProbeNames, b \in ProbeBuffers :
            LET r == put_file_data(trans, n, b)
            IN  r.ok /\ get_file_data(r.trans, n) = Ok(b)

\* C2 (commit on success): when add has returned Ok, every file it archived is in
\* the committed database: list names it and its record can be read.
C2_CommitOnSuccess ==
    (pc = "idle" /\ cmd = "add" /\ exit = "ok") =>
        \A i \in 1..Len(archived) :
            /\ archived[i].fname \in list_files(db)
            /\ get_file(db, archived[i].fname).ok

\* C3 (batch atomicity on error): no step of an add that is running or has failed
\* changes the committed database: after a failure partway nothing of the batch is
\* committed and everything committed before is as it was.
C3_BatchAtomicOnError ==
    [][(cmd' = "add" /\ exit' # "ok") => db' = db]_vars

\* an add over several files failed after add_file had succeeded for one of them
C3_Witness ==
    /\ pc = "idle" /\ cmd = "add" /\ exit \in { "err", "panic" }
    /\ archived # << >>

\* C4 (no dangling references): in every state, every address in the chunk list
\* that get_file returns for a visible record is present in the chunk store,
\* between put_file and put_file_data of add_file too.
C4_NoDanglingReferences ==
    \A name \in DOMAIN trans.files :
        LET chunks == get_file(trans, name).value.chunks
        IN  \A i \in 1..Len(chunks) : chunks[i] \in DOMAIN trans.chunks

\* C5 (empty file): after add_file of a file of 0 bytes, get_file returns size 0
\* and the empty chunk list, and get_file_data returns 0 bytes.
C5_EmptyFile ==
    (AfterAddFile /\ Last(archived).buf = << >>) =>
        LET f == get_file(trans, Last(archived).fname)
        IN  /\ f.ok
            /\ f.value.size = 0
            /\ f.value.chunks = << >>
            /\ get_file_data(trans, Last(archived).fname) = Ok(<< >>)

\* C6 (size is derived): after add_file, the size of the record equals the length
\* of the bytes put under the name, and a put_file_data of any buffer on that
\* record writes the length of that buffer as its size.
C6_SizeIsDerived ==
    AfterAddFile =>
        LET name == Last(archived).fname
        IN  /\ trans.files[name].size = Len(Last(archived).buf)
            /\ \A b \in ProbeBuffers :
                   put_file_data(trans, name, b).trans.files[name].size = Len(b)

\* C7 (last write wins): after add_file archived a file under a name that already
\* held a record, get_file_data of the name returns the new bytes and the number
\* of records is what it was.
C7_LastWriteWins ==
    (AfterAddFile /\ Last(archived).existed) =>
        /\ get_file_data(trans, Last(archived).fname) = Ok(Last(archived).buf)
        /\ Cardinality(DOMAIN trans.files) = Last(archived).records

\* every entry of the chunk table old is in new, with the same bytes
StoreKept(old, new) == \A h \in DOMAIN old : h \in DOMAIN new /\ new[h] = old[h]

\* C8 (chunk store immutability): no step changes or removes an entry of the
\* committed chunk store, and no step of an open transaction changes or removes an
\* entry that the transaction sees (the drop of the transaction discards the
\* entries that it never committed); put_chunk on an address that is present,
\* with whatever bytes, leaves the store as it is.
C8_ChunkStoreImmutable ==
    [][/\ StoreKept(db.chunks, db'.chunks)
       /\ (pc' # "idle" => StoreKept(trans.chunks, trans'.chunks))
       /\ \A h \in DOMAIN trans.chunks, b \in ProbeBuffers : put_chunk(trans, h, b) = trans]_vars

\* add has put a chunk whose address was already in the store: the same non-empty
\* bytes were archived twice
C8_Witness ==
    /\ pc = "add"
    /\ \E i, j \in 1..Len(archived) :
         i < j /\ archived[i].buf = archived[j].buf /\ archived[i].buf # << >>

\* the bytes are what get_file_data returns for another name than name
ArchivedUnderOtherName(name, buf) ==
    \E n \in DOMAIN trans.files : n # name /\ get_file_data(trans, n) = Ok(buf)

\* C9 (deduplication): add_file of a file whose bytes are already archived under
\* another name leaves the chunk store as it is: put_file does not touch it, and
\* put_file_data adds no entry.
C9_Dedup ==
    [][/\ (pc = "add" /\ pc' = "put_file_data") => trans'.chunks = trans.chunks
       /\ (pc = "put_file_data" /\ pc' = "add" /\ ArchivedUnderOtherName(cur.fname, cur.buf))
             => trans'.chunks = trans.chunks]_vars

\* the file that add_file archived last has the non-empty bytes of a file archived
\* before it under another name
C9_Witness ==
    /\ AfterAddFile
    /\ Last(archived).buf # << >>
    /\ \E i \in 1..Len(archived) - 1 :
         /\ archived[i].buf = Last(archived).buf
         /\ archived[i].fname # Last(archived).fname
         /\ get_file_data(trans, archived[i].fname) = Ok(archived[i].buf)

\* the error kinds of the design, for the errors the program produces
ErrorKind(e) ==
    CASE e = "QueryReturnedNoRows" -> "NotFound"
      [] e = "Io" -> "IOError"

\* the chunks of the list, each looked up in the chunk table, one after the other
RECURSIVE Concatenation(_, _)
Concatenation(t, hashes) ==
    IF hashes = << >> THEN << >>
    ELSE t.chunks[Head(hashes)].zstd \o Concatenation(t, Tail(hashes))

\* the addresses that the chunks column of the record holds, in order
StoredAddresses(t, name) == SelectSeq(t.files[name].chunks, LAMBDA x : x # Delimiter)

\* some address that the record holds is not in the chunk store
Dangling(t, name) ==
    \E i \in 1..Len(StoredAddresses(t, name)) :
        StoredAddresses(t, name)[i] \notin DOMAIN t.chunks

\* C10 (error outcomes): get_file_data fails with NotFound for a name without a
\* record, fails with Corruption, returning no bytes, when an address of the
\* record's chunk list is missing from the chunk store, and returns the
\* concatenation of the chunks in list order otherwise.
C10_ErrorKinds ==
    pc = "read" =>
        LET r == answer.value
        IN  IF asked \notin DOMAIN db.files
            THEN ~r.ok /\ ErrorKind(r.err) = "NotFound"
            ELSE IF Dangling(db, asked)
            THEN ~r.ok /\ ErrorKind(r.err) = "Corruption"
            ELSE r = Ok(Concatenation(db, StoredAddresses(db, asked)))

\* the path extract_file writes the record file to, for the requested path ex
Destination(file, ex) == strip_prefix(file, parent(ex).value).value

\* extract_file gets as far as write_file_data_safe for the next selected name
ReachesWrite ==
    /\ pc = "extract" /\ selected # << >>
    /\ get_file_data(trans, Head(selected)).ok
    /\ parent(ex_to).some
    /\ strip_prefix(Head(selected), parent(ex_to).value).ok

\* C11 (collision safety): when the destination of an extracted file exists, the
\* write fails with an error and the directory, the destination's content
\* included, is left as it was; where extract_file comes to write,
\* write_file_data_safe does so for every existing path and every buffer.
C11_CollisionSafety ==
    [][/\ (ReachesWrite /\ Destination(Head(selected), ex_to) \in DOMAIN disk)
           => (exit' = "err" /\ disk' = disk)
       /\ ReachesWrite
           => \A d \in DOMAIN disk, b \in ProbeBuffers :
                  /\ write_file_data_safe(disk, d, b).kind = "err"
                  /\ write_file_data_safe(disk, d, b).disk = disk]_vars

\* an extract has failed and the directory holds a file, under the name of a
\* readable record, whose bytes are not the record's
C11_Witness ==
    /\ pc = "idle" /\ cmd = "extract" /\ exit = "err"
    /\ \E n \in DOMAIN db.files :
         /\ get_file_data(db, n).ok
         /\ n \in DOMAIN disk
         /\ disk[n].kind = "file"
         /\ disk[n].data # get_file_data(db, n).value

\* the set of the elements of a sequence
Range(seq) == { seq[i] : i \in 1..Len(seq) }

\* P is name, or name lies in the subtree P: name is P followed by components
IsUnder(name, P) == \E n \in 0..Len(name) : name = P \o SubSeq(name, n + 1, Len(name))

\* C12 (selection and destination): extract of a path P selects exactly the names
\* of the file index that are P or lie in the subtree P, each once, and no name
\* that only shares a string prefix with P; every file it writes goes to the name
\* with the components of P's parent dropped, that is the last component of P
\* followed by the subpath below P, holds the bytes of the record, and nothing
\* else in the directory changes but the directories created above it.
C12_SelectionAndDestination ==
    [][/\ (pc = "extract" /\ selected = << >> /\ args # << >> /\ pc' = "extract")
           => /\ Range(selected') = { x \in DOMAIN trans.files : IsUnder(x, Head(args)) }
              /\ Len(selected') = Cardinality(Range(selected'))
              /\ ex_to' = Head(args)
       /\ (pc = "extract" /\ selected # << >> /\ pc' = "extract")
           => LET name == Head(selected)
                  dest == SubSeq(name, Len(ex_to), Len(name))
              IN  /\ dest[1] = Last(ex_to)
                  /\ dest \notin DOMAIN disk
                  /\ disk'[dest] = [ kind |-> "file", data |-> get_file_data(trans, name).value ]
                  /\ \A q \in DOMAIN disk : disk'[q] = disk[q]
                  /\ \A q \in DOMAIN disk' :
                         q \in DOMAIN disk \/ q = dest \/ (IsUnder(dest, q) /\ disk'[q] = Directory)]_vars

\* extract of a has written a/b.txt with the bytes of its record and has not
\* selected ab/c, and an extract of a/b.txt has written b.txt
C12_Witness ==
    /\ pc = "extract" /\ ex_to = << "a" >> /\ selected = << >>
    /\ << "ab", "c" >> \in DOMAIN trans.files
    /\ << "ab", "c" >> \notin DOMAIN disk
    /\ << "a", "b.txt" >> \in DOMAIN disk
    /\ disk[<< "a", "b.txt" >>] = [ kind |-> "file", data |-> << 7 >> ]
    /\ << "b.txt" >> \in DOMAIN disk

\* C13 (no crash): every add, list and extract, whatever paths it is given, the
\* empty path and a path without parent included, ends in normal completion or
\* in an error result, never in a panic.
C13_NoPanic ==
    /\ exit \in { "none", "running", "ok", "err" }
    /\ pc = "idle" => exit \in { "none", "ok", "err" }

\* the path given to add names a symbolic link, or something that is neither a
\* regular file nor a directory
Unsupported(file) ==
    /\ push(current_dir, file) \in DOMAIN Fs
    /\ Fs[push(current_dir, file)].kind \notin { "file", "dir" }

\* C14 (unsupported inputs): when add comes to a path that is a symbolic link or
\* is neither a regular file nor a directory, the invocation fails with an error
\* result; the entry is not followed and nothing is archived for it.
C14_UnsupportedRejected ==
    [][(pc = "add" /\ resolved = << >> /\ args # << >> /\ Unsupported(Head(args)))
          => (pc' = "idle" /\ exit' = "err" /\ resolved' = << >>)]_vars

\* add_file on the file at fpath, as one function of the transaction
add_file(t, fpath) ==
    IF ~Fs[fpath].readable THEN [ ok |-> FALSE, err |-> "Io", trans |-> t ]
    ELSE put_file_data(put_file(t, File(normalise_path(current_dir, fpath).path, Fs[fpath].len, << >>)),
                       normalise_path(current_dir, fpath).path, Fs[fpath].data)

\* the loop of add_files_cmd over resolved files, up to the first error
RECURSIVE AddFiles(_, _)
AddFiles(t, fpaths) ==
    IF fpaths = << >> THEN [ ok |-> TRUE, trans |-> t ]
    ELSE LET r == add_file(t, Head(fpaths))
         IN  IF r.ok THEN AddFiles(r.trans, Tail(fpaths)) ELSE r

\* the addresses of the chunks of a buffer, in order
Addresses(buf) == [ k \in 1..Len(chunk_data(buf)) |-> hash_chunk(chunk_data(buf)[k]) ]

\* the archive t holds the content of the batch arch: every chunk of every file,
\* and for every name the record of the last file archived under it, with the
\* size that the run, whose view is view, records
ContainsBatch(t, view, arch) ==
    \A i \in 1..Len(arch) :
        /\ \A k \in 1..Len(chunk_data(arch[i].buf)) :
               /\ Addresses(arch[i].buf)[k] \in DOMAIN t.chunks
               /\ t.chunks[Addresses(arch[i].buf)[k]] = encode_all(chunk_data(arch[i].buf)[k])
        /\ (\A j \in (i + 1)..Len(arch) : arch[j].fname # arch[i].fname)
              => /\ arch[i].fname \in DOMAIN t.files
                 /\ t.files[arch[i].fname] =
                        [ size |-> view.files[arch[i].fname].size,
                          chunks |-> Join(Addresses(arch[i].buf)) ]

\* C15 (retry safety): an add whose files' content the archive already holds
\* writes no chunk-store entry and, between files and at its end, has the archive
\* as it found it; and running add_file, or the rest of the batch, a second time
\* on the result of a first run changes nothing and writes no entry.
C15_RetrySafety ==
    /\ (InAdd /\ ContainsBatch(db, trans, archived))
          => /\ trans.chunks = db.chunks
             /\ pc = "add" => trans = db
    /\ (pc = "add" /\ resolved # << >>)
          => LET first == AddFiles(trans, resolved)
             IN  first.ok => AddFiles(first.trans, resolved) = first

\* an add of /a/b.txt is at its end on an archive that held the file's record
\* and chunk
C15_Witness ==
    /\ pc = "add" /\ args = << >> /\ resolved = << >>
    /\ archived # << >>
    /\ db.files # EmptyTable
    /\ ContainsBatch(db, trans, archived)

\* the chunks of a list one after the other
RECURSIVE Flatten(_)
Flatten(cs) == IF cs = << >> THEN << >> ELSE Head(cs) \o Flatten(Tail(cs))

\* what C16 says of every buffer: the chunks are not empty and are the buffer
\* when put together, and the empty buffer has no chunk
Coverage ==
    /\ Flatten(sliced) = buffer
    /\ \A i \in 1..Len(sliced) : sliced[i] # << >>
    /\ buffer = << >> => sliced = << >>

ProbeLists ==
    { << >>,
      << hash_chunk(<< 7 >>) >>,
      << hash_chunk(<< 221, 107, 1 >>), hash_chunk(<< 7 >>) >>,
      << hash_chunk(<< 7 >>), hash_chunk(<< 7, 7 >>), hash_chunk(<< 7 >>) >> }

\* the delimiter is a character of the string
HasDelimiter(str) == \E i \in 1..Len(str) : SubSeq(str, i, i) = Delimiter

\* C17 (chunk-list serialisation): for every list L of chunk addresses, the empty
\* list and a list of one included, get_file after put_file of a record with
\* chunks L returns chunks L; and no address that hash_chunk produces holds the
\* delimiter.
C17_ChunkListRoundTrip ==
    InAdd =>
        /\ \A n \in ProbeNames, L \in ProbeLists :
               get_file(put_file(trans, File(n, Len(L), L)), n) = Ok(File(n, Len(L), L))
        /\ \A b \in ProbeBuffers \cup { << 221, 107, 1 >>, << 7, 7 >> } :
               ~HasDelimiter(hash_chunk(b))

\* C18 (archive names are injective): two different files resolved in one add
\* are never given the same archive name, so no record that the add has put is
\* replaced by the record of another file: the files archived under one name in
\* one add have the same bytes, being the same file.
C18_NamesInjective ==
    InAdd =>
        \A i, j \in 1..Len(archived) :
            archived[i].fname = archived[j].fname => archived[i].buf = archived[j].buf

\* C19 (reads do not modify the archive): no step of a list or of an extract,
\* whether it goes on, ends well or fails, changes the committed file index and
\* chunk store, and none writes in its transaction: the view stays the committed
\* database.
C19_ReadsDoNotModify ==
    [][cmd' \in { "list", "extract" } => (db' = db /\ trans' = db)]_vars

\* on an archive with records, an extract has written a file and a later
\* extract has failed
C19_Witness ==
    /\ pc = "idle" /\ cmd = "extract" /\ exit = "err"
    /\ db = ArchiveDatabase
    /\ << "b.txt" >> \in DOMAIN disk

====
